---- MODULE Spec2Model ----
(***************************************************************************)
(* Model of the RSP monthly trigger monitor.                               *)
(*   live mode     : src/rsp_dca_monitor.py      (RSPMonitor)              *)
(*   backtest mode : src/rsp_backtest_monitor.py (RSPBacktestMonitor)      *)
(* Prices are integers; every comparison of a return or a decline with a   *)
(* threshold is done on exact fractions [num, den] (den > 0).              *)
(* An optional value (Python None, '' or a missing bar) is the empty       *)
(* tuple << >>, a present value v is the one-element tuple <<v>>.          *)
(***************************************************************************)
EXTENDS Integers, Sequences, FiniteSets

VARIABLES
    mode,        \* which script runs: "live" or "backtest"; "compare" runs both
                 \* on the same bars
    today,       \* live: datetime.now().date(); backtest: date of the current row
    daysLeft,    \* live: days the clock may still advance
    firstOpen,   \* live: open of the first bar of today's month in the fetched frame
    prevClose,   \* close of the bar before today's bar / the current row
    todayBar,    \* live: close of today's bar in the fetched frame, if published
    todayOpen,   \* live: open of today's bar in the fetched frame, if published
    fetcher,     \* live: which MarketBreadthFetcher class the process got at import
    state,       \* live: RSPMonitor.state (in memory)
    file,        \* live: contents of rsp_monitor_state.json
    messages,    \* live: the messages list built by the latest check_triggers;
                 \* backtest: the triggers appended by the latest row
    outcome,     \* what the latest step was, and the breadth it looked up
    fired,       \* history: events emitted per type in the calendar month of today
    evalCloses,  \* history: closes evaluated in the month (live: of today; backtest: in analysis)
    undelivered, \* history: types for which send_wechat returned False in the calendar
                 \* month of today
    phase,       \* backtest: position in run_backtest / analyze_month
    monthsLeft,  \* backtest: month groups of the frame not yet visited
    trading_days,\* backtest: len(monthly_data) of the current group
    i,           \* backtest: rows of the current group already analysed
    month_state, \* backtest: the month_state dict of analyze_month
    backtest_results,  \* backtest: RSPBacktestMonitor.backtest_results
    trigger_summary    \* backtest: RSPBacktestMonitor.trigger_summary

vars == <<mode, today, daysLeft, firstOpen, prevClose, todayBar, todayOpen, fetcher,
          state, file,
          messages, outcome, fired, evalCloses, undelivered, phase, monthsLeft,
          trading_days,
          i, month_state, backtest_results, trigger_summary>>

btVars == <<phase, monthsLeft, trading_days, i, month_state, backtest_results,
            trigger_summary>>

liveVars == <<daysLeft, firstOpen, todayBar, todayOpen, fetcher, state, file, fired,
             evalCloses, undelivered>>

-----------------------------------------------------------------------------
(* Bounds of the model *)

MaxDays == 4
MaxBars == 5

Opens == {99, 100}
Closes == {95, 99, 100}
Breadths == {14, 15}

\* Live mode starts in mid-month: the open of the month's first bar and the
\* close of the bar before the start date
StartOpens == {100}
StartCloses == {100}

StartDates == { [year |-> 2024, month |-> 12, day |-> 19],
                [year |-> 2024, month |-> 11, day |-> 29] }
BacktestStart == [year |-> 2024, month |-> 12, day |-> 1]

\* The months the frame of the backtest has rows for, from BacktestStart on
BacktestMonths == {202412, 202501}

TriggerTypes == {"first_dip", "monthly_deadline", "second_dip", "third_dip"}

(* Thresholds written as literals in the code *)
FirstDipPct == 1
SecondDipPct == 5
BreadthThreshold == 15
MinTradingDays == 5
Friday == 4
DefaultBreadth == 20

-----------------------------------------------------------------------------
(* Calendar: datetime.date as the code uses it *)

IsLeap(y) == (y % 4 = 0) /\ ((y % 100 # 0) \/ (y % 400 = 0))

DaysInMonth(y, m) ==
    IF m = 2 THEN (IF IsLeap(y) THEN 29 ELSE 28)
    ELSE IF m \in {4, 6, 9, 11} THEN 30 ELSE 31

DaysBeforeMonth(y, m) ==
    LET cum == <<0, 31, 59, 90, 120, 151, 181, 212, 243, 273, 304, 334>>
    IN cum[m] + (IF m > 2 /\ IsLeap(y) THEN 1 ELSE 0)

\* date.toordinal()
Ordinal(d) ==
    LET y1 == d.year - 1
    IN y1 * 365 + (y1 \div 4) - (y1 \div 100) + (y1 \div 400)
       + DaysBeforeMonth(d.year, d.month) + d.day

\* date.weekday(): Monday is 0
weekday(d) == (Ordinal(d) + 6) % 7

\* current_date += timedelta(days=1)
NextDate(d) ==
    IF d.day < DaysInMonth(d.year, d.month)
    THEN [d EXCEPT !.day = d.day + 1]
    ELSE IF d.month < 12
         THEN [year |-> d.year, month |-> d.month + 1, day |-> 1]
         ELSE [year |-> d.year + 1, month |-> 1, day |-> 1]

\* strftime('%Y-%m'): distinct months give distinct keys
MonthStr(d) == <<d.year * 100 + d.month>>

\* strftime('%Y-%m-%d')
DateStr(d) == <<d.year * 10000 + d.month * 100 + d.day>>

\* The fridays list of is_third_friday, as the set of its days
FridaysOf(y, m) ==
    { k \in 1..DaysInMonth(y, m) :
        weekday([year |-> y, month |-> m, day |-> k]) = Friday }

\* fridays[n] (0-based) of the ascending list
NthOf(S, n) == CHOOSE k \in S : Cardinality({e \in S : e < k}) = n

LastOf(S) == CHOOSE k \in S : \A e \in S : e <= k

\* RSPMonitor.is_third_friday
\* (mutant: the index of the third Friday is off by one)
is_third_friday_OffByOne(d) ==
    LET fridays == FridaysOf(d.year, d.month)
    IN IF Cardinality(fridays) >= 4
       THEN d.day = NthOf(fridays, 3)
       ELSE IF fridays # {} THEN d.day = LastOf(fridays) ELSE FALSE

is_third_friday(d) ==
    LET fridays == FridaysOf(d.year, d.month)
    IN IF Cardinality(fridays) >= 3
       THEN d.day = NthOf(fridays, 2)
       ELSE IF fridays # {} THEN d.day = LastOf(fridays) ELSE FALSE

-----------------------------------------------------------------------------
(* Fractions and the threshold comparisons *)

Frac(n, d) == [num |-> n, den |-> d]
Zero == Frac(0, 1)

\* df['close'].pct_change(), NaN (no earlier bar) read as 0
pct_change(close, prev) ==
    IF prev = << >> THEN Zero ELSE Frac(close - prev[1], prev[1])

\* Mutant of the comparison below: a return of exactly -1% does not count
AtMostMinusOnePct_Strict(x) == x.num * 100 < (0 - FirstDipPct) * x.den

\* x <= -0.01
AtMostMinusOnePct(x) == x.num * 100 <= (0 - FirstDipPct) * x.den

\* Mutant of the comparison below: a decline of exactly 5% does not count
AtLeastFivePct_Strict(x) == x.num * 100 > SecondDipPct * x.den

\* x >= 0.05
AtLeastFivePct(x) == x.num * 100 >= SecondDipPct * x.den

Min(a, b) == IF a <= b THEN a ELSE b

-----------------------------------------------------------------------------
(* Live mode: RSPMonitor *)

\* Mutant of the default state below: a flag is set in it
default_state_FlagSet ==
    [ current_month              |-> << >>,
      first_dip_triggered        |-> TRUE,
      monthly_deadline_triggered |-> FALSE,
      second_dip_triggered       |-> FALSE,
      third_dip_triggered        |-> FALSE,
      month_start_price          |-> << >>,
      month_low_price            |-> << >>,
      last_check_date            |-> << >> ]

default_state ==
    [ current_month              |-> << >>,
      first_dip_triggered        |-> FALSE,
      monthly_deadline_triggered |-> FALSE,
      second_dip_triggered       |-> FALSE,
      third_dip_triggered        |-> FALSE,
      month_start_price          |-> << >>,
      month_low_price            |-> << >>,
      last_check_date            |-> << >> ]

\* Contents of the state file that json.load rejects
Unparsable == [json_error |-> TRUE]

\* The file exists and json.load returns its contents
Parses(f) == f # << >> /\ f[1] # Unparsable

\* What the monitor finds on disk when it is first started: no state file,
\* or a file that is not JSON
StartFiles == { << >>, <<Unparsable>> }

\* file is << >> when rsp_monitor_state.json does not exist, else <<contents>>;
\* a missing file and an exception (contents that do not parse) give the default
load_state(f) == IF Parses(f) THEN f[1] ELSE default_state

\* Mutant of the reset below: one flag is missing from the update
reset_monthly_state_KeepsSecondDip(st, current_month) ==
    [ st EXCEPT !.current_month              = current_month,
                !.first_dip_triggered        = FALSE,
                !.monthly_deadline_triggered = FALSE,
                !.third_dip_triggered        = FALSE,
                !.month_start_price          = << >>,
                !.month_low_price            = << >> ]

reset_monthly_state(st, current_month) ==
    [ st EXCEPT !.current_month              = current_month,
                !.first_dip_triggered        = FALSE,
                !.monthly_deadline_triggered = FALSE,
                !.second_dip_triggered       = FALSE,
                !.third_dip_triggered        = FALSE,
                !.month_start_price          = << >>,
                !.month_low_price            = << >> ]

\* Mutant of the branch below: the month start price is not set
LiveRollover_NoStartPrice(st, current_month, first_open) ==
    IF st.current_month # current_month
    THEN reset_monthly_state(st, current_month)
    ELSE st

\* The new-month branch of check_triggers: reset, then the open of the first
\* bar of the month in the frame, when the frame has one
LiveRollover(st, current_month, first_open) ==
    IF st.current_month # current_month
    THEN [ reset_monthly_state(st, current_month)
             EXCEPT !.month_start_price = first_open ]
    ELSE st

\* Mutant of the update below: the low is overwritten by the latest close
LiveUpdateLow_Overwrite(low, close) == <<close>>

LiveUpdateLow(low, close) ==
    IF low = << >> THEN <<close>> ELSE <<Min(low[1], close)>>

\* Mutant of the computation below: a missing start price counts as a full decline
LiveCumulativeDecline_DefaultOne(start, close) ==
    IF start # << >> /\ start[1] # 0
    THEN Frac(start[1] - close, start[1])
    ELSE Frac(1, 1)

\* Python truth value of month_start_price: None and 0 are false
LiveCumulativeDecline(start, close) ==
    IF start # << >> /\ start[1] # 0
    THEN Frac(start[1] - close, start[1])
    ELSE Zero

\* Mutants of the condition below: one guard of the two flags left out
LiveFirstDipCondition_NoDeadlineGuard(st, ret) ==
    /\ ~st.first_dip_triggered
    /\ AtMostMinusOnePct(ret)

LiveFirstDipCondition_NoFirstDipGuard(st, ret) ==
    /\ ~st.monthly_deadline_triggered
    /\ AtMostMinusOnePct(ret)

LiveFirstDipCondition(st, ret) ==
    /\ ~st.first_dip_triggered
    /\ ~st.monthly_deadline_triggered
    /\ AtMostMinusOnePct(ret)

LiveDeadlineCondition(st, d) ==
    /\ ~st.first_dip_triggered
    /\ ~st.monthly_deadline_triggered
    /\ is_third_friday(d)

\* Mutant of the condition below: the flag is not consulted
LiveSecondDipCondition_NoFlagGuard(st, cd) ==
    AtLeastFivePct(cd)

LiveSecondDipCondition(st, cd) ==
    /\ ~st.second_dip_triggered
    /\ AtLeastFivePct(cd)

\* Mutant of the guard below: stage 3 does not wait for stage 2
LiveThirdDipGuard_NoSecondDip(st) ==
    ~st.third_dip_triggered

LiveThirdDipGuard(st) ==
    /\ st.second_dip_triggered
    /\ ~st.third_dip_triggered

\* Mutant of the live condition below: a breadth of exactly 15 fires
LiveBreadthCondition_Inclusive(b) == b <= BreadthThreshold

LiveBreadthCondition(b) == b < BreadthThreshold

\* What a message is built from
Msg(type, d, close, ret, cd, breadth) ==
    [ type |-> type, date |-> d, price |-> close, daily_return |-> ret,
      cumulative_decline |-> cd, market_breadth |-> breadth ]

\* Mutant of the stage below: the deadline is tested first
LiveStage1_DeadlineFirst(r, d, close, ret, cd) ==
    IF LiveDeadlineCondition(r.st, d)
    THEN [ st   |-> [r.st EXCEPT !.monthly_deadline_triggered = TRUE],
           msgs |-> Append(r.msgs, Msg("monthly_deadline", d, close, ret, cd, << >>)) ]
    ELSE IF LiveFirstDipCondition(r.st, ret)
    THEN [ st   |-> [r.st EXCEPT !.first_dip_triggered = TRUE],
           msgs |-> Append(r.msgs, Msg("first_dip", d, close, ret, cd, << >>)) ]
    ELSE r

\* Conditions 1 and 2 (if / elif)
LiveStage1(r, d, close, ret, cd) ==
    IF LiveFirstDipCondition(r.st, ret)
    THEN [ st   |-> [r.st EXCEPT !.first_dip_triggered = TRUE],
           msgs |-> Append(r.msgs, Msg("first_dip", d, close, ret, cd, << >>)) ]
    ELSE IF LiveDeadlineCondition(r.st, d)
    THEN [ st   |-> [r.st EXCEPT !.monthly_deadline_triggered = TRUE],
           msgs |-> Append(r.msgs, Msg("monthly_deadline", d, close, ret, cd, << >>)) ]
    ELSE r

\* Mutant of the stage below: the message is put at the head of the list
LiveStage2_Prepends(r, d, close, ret, cd) ==
    IF LiveSecondDipCondition(r.st, cd)
    THEN [ st   |-> [r.st EXCEPT !.second_dip_triggered = TRUE],
           msgs |-> <<Msg("second_dip", d, close, ret, cd, << >>)>> \o r.msgs ]
    ELSE r

\* Condition 3
LiveStage2(r, d, close, ret, cd) ==
    IF LiveSecondDipCondition(r.st, cd)
    THEN [ st   |-> [r.st EXCEPT !.second_dip_triggered = TRUE],
           msgs |-> Append(r.msgs, Msg("second_dip", d, close, ret, cd, << >>)) ]
    ELSE r

\* Condition 4; breadth is what get_market_breadth returns when it is called
LiveStage3(r, d, close, ret, cd, breadth) ==
    IF LiveThirdDipGuard(r.st) /\ LiveBreadthCondition(breadth)
    THEN [ st   |-> [r.st EXCEPT !.third_dip_triggered = TRUE],
           msgs |-> Append(r.msgs, Msg("third_dip", d, close, ret, cd, <<breadth>>)) ]
    ELSE r

\* Mutant of the update below: the date of the check is not recorded
LiveFinish_KeepsDate(st, d) == st

\* self.state['last_check_date'] = today.strftime('%Y-%m-%d')
LiveFinish(st, d) == [st EXCEPT !.last_check_date = DateStr(d)]

\* Mutant of the operator below: the flags are not written
save_state_DropsFlags(st) ==
    << [st EXCEPT !.first_dip_triggered = FALSE,
                  !.monthly_deadline_triggered = FALSE,
                  !.second_dip_triggered = FALSE,
                  !.third_dip_triggered = FALSE] >>

\* json.dump(self.state, f): the file holds the state
save_state(st) == <<st>>

\* Lines 246-350 of check_triggers on today's bar
LiveEvaluate(st0, d, close, prev, breadth) ==
    LET ret == pct_change(close, prev)
        st1 == [st0 EXCEPT !.month_low_price = LiveUpdateLow(st0.month_low_price, close)]
        cd  == LiveCumulativeDecline(st1.month_start_price, close)
        r1  == LiveStage1([st |-> st1, msgs |-> << >>], d, close, ret, cd)
        r2  == LiveStage2(r1, d, close, ret, cd)
        r3  == LiveStage3(r2, d, close, ret, cd, breadth)
    IN [ st     |-> LiveFinish(r3.st, d),
         msgs   |-> r3.msgs,
         lookup |-> IF LiveThirdDipGuard(r2.st) THEN <<breadth>> ELSE << >> ]

Types(msgs) == { msgs[k].type : k \in 1..Len(msgs) }

Bump(f, msgs) ==
    [ t \in TriggerTypes |->
        IF t \in Types(msgs) THEN Min(f[t] + 1, 2) ELSE f[t] ]

NoneFired == [ t \in TriggerTypes |-> 0 ]

\* kind: which step ran; lookup: the breadth it looked up, if it did; source:
\* where a live lookup got its value from; sent: what send_wechat returned for
\* each message it was called with
Step(kind, lookup) ==
    [kind |-> kind, lookup |-> lookup, source |-> "none", sent |-> << >>]

\* What send_wechat can return for n messages: True, or False (no key, a
\* response that is not a success, an exception caught inside send_wechat)
Deliveries(n) == [1..n -> BOOLEAN]

\* Mutant of the loop below: it stops at the first message that is not delivered
SendLoop_StopAtFailure(results) ==
    IF \A k \in 1..Len(results) : results[k]
    THEN results
    ELSE SubSeq(results, 1,
                CHOOSE k \in 1..Len(results) :
                    ~results[k] /\ \A j \in 1..(k - 1) : results[j])

\* for msg in messages: self.send_wechat(msg) -- the calls made, with their
\* return values
SendLoop(results) == results

\* The class of the except ImportError branch: random.uniform(10, 30)
FallbackBreadths == { b \in Breadths : 10 <= b /\ b <= 30 }

\* MarketBreadthFetcher._get_simulated_breadth: 25 + uniform(-10, 10), kept
\* within [5, 45]
SimulatedBreadths ==
    { b \in Breadths : 25 - 10 <= b /\ b <= 25 + 10 /\ 5 <= b /\ b <= 45 }

Breadth(value, source) == [value |-> value, source |-> source]

\* MarketBreadthFetcher.get_market_breadth: the first source that answers,
\* else (no source answers, or an exception) the simulated value
FetcherBreadth ==
    { Breadth(b, "real") : b \in Breadths }
       \cup { Breadth(b, "simulated") : b \in SimulatedBreadths }

\* RSPMonitor.get_market_breadth: what the fetcher object of this process
\* returns, or 20.0 when it raises
get_market_breadth(f) ==
    IF f = "fallback"
    THEN { Breadth(b, "fallback") : b \in FallbackBreadths }
    ELSE FetcherBreadth \cup { Breadth(DefaultBreadth, "default") }

\* RSPMonitor.check_triggers, one run
check_triggers ==
    /\ mode = "live"
    /\ \/ \* get_rsp_data returned an empty frame
          /\ outcome' = Step("no_data", << >>)
          /\ messages' = << >>
          /\ UNCHANGED <<state, file, fired, evalCloses, undelivered>>
       \/ \* the frame has no row for today
          /\ todayBar = << >>
          /\ state' = LiveRollover(state, MonthStr(today), firstOpen)
          /\ outcome' = Step("no_bar", << >>)
          /\ messages' = << >>
          /\ UNCHANGED <<file, fired, evalCloses, undelivered>>
       \/ /\ todayBar # << >>
          /\ \E breadth \in get_market_breadth(fetcher) :
               LET st0 == LiveRollover(state, MonthStr(today), firstOpen)
                   e   == LiveEvaluate(st0, today, todayBar[1], prevClose, breadth.value)
               IN /\ state' = e.st
                  /\ messages' = e.msgs
                  /\ file' = save_state(e.st)
                  /\ \E results \in Deliveries(Len(e.msgs)) :
                       /\ outcome' = [ Step("evaluated", e.lookup) EXCEPT
                                         !.source = IF e.lookup # << >>
                                                    THEN breadth.source ELSE "none",
                                         !.sent = SendLoop(results) ]
                       /\ undelivered' = undelivered \cup
                             { e.msgs[k].type : k \in { j \in 1..Len(SendLoop(results)) :
                                                          ~SendLoop(results)[j] } }
                  /\ fired' = Bump(fired, e.msgs)
                  /\ evalCloses' = evalCloses \cup {todayBar[1]}
    /\ UNCHANGED <<mode, today, daysLeft, firstOpen, prevClose, todayBar, todayOpen,
                   fetcher, btVars>>

\* RSPMonitor.__init__ in a new process: the state is read from the file
NewProcess ==
    /\ mode = "live"
    /\ state' = load_state(file)
    /\ messages' = << >>
    /\ outcome' = Step("start", << >>)
    /\ UNCHANGED <<mode, today, daysLeft, firstOpen, prevClose, todayBar, todayOpen, fetcher,
                   file, fired, evalCloses, undelivered, btVars>>

\* The quote provider publishes today's bar (trading days only)
PublishBar ==
    /\ mode = "live"
    /\ todayBar = << >>
    /\ weekday(today) < 5
    /\ \E o \in Opens, c \in Closes :
         /\ todayBar' = <<c>>
         /\ todayOpen' = <<o>>
         /\ firstOpen' = IF firstOpen = << >> THEN <<o>> ELSE firstOpen
    /\ messages' = << >>
    /\ outcome' = Step("bar", << >>)
    /\ UNCHANGED <<mode, today, daysLeft, prevClose, fetcher, state, file, fired,
                   evalCloses, undelivered, btVars>>

\* Midnight
AdvanceDay ==
    /\ mode = "live"
    /\ daysLeft > 0
    /\ today' = NextDate(today)
    /\ daysLeft' = daysLeft - 1
    /\ prevClose' = IF todayBar # << >> THEN todayBar ELSE prevClose
    /\ todayBar' = << >>
    /\ todayOpen' = << >>
    /\ IF MonthStr(today') # MonthStr(today)
       THEN /\ firstOpen' = << >>
            /\ fired' = NoneFired
            /\ evalCloses' = {}
            /\ undelivered' = {}
       ELSE UNCHANGED <<firstOpen, fired, evalCloses, undelivered>>
    /\ messages' = << >>
    /\ outcome' = Step("advance", << >>)
    /\ UNCHANGED <<mode, fetcher, state, file, btVars>>

-----------------------------------------------------------------------------
(* Backtest mode: RSPBacktestMonitor *)

\* simulate_market_breadth: a value fixed by the date's seed and the volatility,
\* within [14, 44] for rows 0..4 and within [5, 50] after; any of Breadths can
\* be the value
simulate_market_breadth == { b \in Breadths : 14 <= b /\ b <= 44 }

\* Mutant of the operator below: the latest value replaces the running one
FracMax_Latest(a, b) == b

\* max(a, b) of Python on fractions: a unless b is strictly greater
FracMax(a, b) == IF b.num * a.den > a.num * b.den THEN b ELSE a

new_month_state(month_str, n, first_open) ==
    [ month                      |-> month_str,
      first_dip_triggered        |-> FALSE,
      monthly_deadline_triggered |-> FALSE,
      second_dip_triggered       |-> FALSE,
      third_dip_triggered        |-> FALSE,
      triggers                   |-> << >>,
      month_start_price          |-> first_open,
      max_decline                |-> Zero,
      trading_days               |-> n ]

BtCumulativeDecline(start, close) == Frac(start - close, start)

\* Mutant of the operator below: the branch for fewer than three Fridays decides
BtIsThirdFriday_FewFridaysBranch(check_date) ==
    LET fridays == FridaysOf(check_date.year, check_date.month)
    IN IF fridays # {} THEN check_date.day = LastOf(fridays) ELSE FALSE

\* RSPBacktestMonitor.is_third_friday, the backtest's own copy
BtIsThirdFriday(check_date) ==
    LET fridays == FridaysOf(check_date.year, check_date.month)
    IN IF Cardinality(fridays) >= 3
       THEN check_date.day = NthOf(fridays, 2)
       ELSE IF fridays # {} THEN check_date.day = LastOf(fridays) ELSE FALSE

BtFirstDipCondition(ms, ret) ==
    /\ ~ms.first_dip_triggered
    /\ ~ms.monthly_deadline_triggered
    /\ AtMostMinusOnePct(ret)

BtDeadlineCondition(ms, d) ==
    /\ ~ms.first_dip_triggered
    /\ ~ms.monthly_deadline_triggered
    /\ BtIsThirdFriday(d)

\* Mutant of the condition below: any decline fires
BtSecondDipCondition_AnyDecline(ms, cd) ==
    /\ ~ms.second_dip_triggered
    /\ cd.num > 0

BtSecondDipCondition(ms, cd) ==
    /\ ~ms.second_dip_triggered
    /\ AtLeastFivePct(cd)

\* Mutant of the guard below: stage 3 stays open after ThirdDip
BtThirdDipGuard_NoThirdDipCheck(ms) ==
    ms.second_dip_triggered

BtThirdDipGuard(ms) ==
    /\ ms.second_dip_triggered
    /\ ~ms.third_dip_triggered

\* Mutant of the backtest condition below: a breadth of exactly 15 fires
BtBreadthCondition_Inclusive(b) == b <= BreadthThreshold

BtBreadthCondition(b) == b < BreadthThreshold

\* month_state['triggers'] keeps the type of each trigger; the whole record
\* of the triggers a row appends is in new
BtFire(r, flag, trigger) ==
    [ ms  |-> [r.ms EXCEPT ![flag] = TRUE,
                           !.triggers = Append(r.ms.triggers, trigger.type)],
      new |-> Append(r.new, trigger) ]

BtStage1(r, d, close, ret, cd) ==
    IF BtFirstDipCondition(r.ms, ret)
    THEN BtFire(r, "first_dip_triggered",
                Msg("first_dip", d, close, ret, cd, << >>))
    ELSE IF BtDeadlineCondition(r.ms, d)
    THEN BtFire(r, "monthly_deadline_triggered",
                Msg("monthly_deadline", d, close, ret, cd, << >>))
    ELSE r

BtStage2(r, d, close, ret, cd) ==
    IF BtSecondDipCondition(r.ms, cd)
    THEN BtFire(r, "second_dip_triggered",
                Msg("second_dip", d, close, ret, cd, << >>))
    ELSE r

BtStage3(r, d, close, ret, cd, breadth) ==
    IF BtThirdDipGuard(r.ms) /\ BtBreadthCondition(breadth)
    THEN BtFire(r, "third_dip_triggered",
                Msg("third_dip", d, close, ret, cd, <<breadth>>))
    ELSE r

\* One iteration of the row loop of analyze_month
BtEvaluate(ms0, d, close, prev, breadth) ==
    LET ret == pct_change(close, prev)
        cd  == BtCumulativeDecline(ms0.month_start_price, close)
        ms1 == [ms0 EXCEPT !.max_decline = FracMax(ms0.max_decline, cd)]
        r1  == BtStage1([ms |-> ms1, new |-> << >>], d, close, ret, cd)
        r2  == BtStage2(r1, d, close, ret, cd)
        r3  == BtStage3(r2, d, close, ret, cd, breadth)
    IN [ ms     |-> r3.ms,
         new    |-> r3.new,
         lookup |-> IF BtThirdDipGuard(r2.ms) THEN <<breadth>> ELSE << >> ]

\* The month after the one of d, as a cursor before its first row
NextMonth(d) ==
    IF d.month < 12
    THEN [year |-> d.year, month |-> d.month + 1, day |-> 0]
    ELSE [year |-> d.year + 1, month |-> 1, day |-> 0]

\* Trading days of the month of d after day d.day
WeekdaysAfter(d) ==
    { k \in (d.day + 1)..DaysInMonth(d.year, d.month) :
        weekday([d EXCEPT !.day = k]) < 5 }

\* The third Friday of a month is its Friday among days 15..21
ThirdFriday(d) == d.day \in 15..21 /\ weekday(d) = Friday

\* The first row of a group is dated the first trading day of the month (a
\* month from its start) or two days before its third Friday (a frame that
\* starts in mid-month)
FirstRowDays(d) ==
    LET w == WeekdaysAfter([d EXCEPT !.day = 0])
    IN {NthOf(w, 0)} \cup { k - 2 : k \in { e \in w : ThirdFriday([d EXCEPT !.day = e]) } }

\* The dates the next row of the group can have: rows are in ascending date
\* order, one per date, on consecutive trading days, except that the market
\* may be closed on the third Friday (as on 2019-04-19 and 2022-04-15)
NextRowDays(d) ==
    IF d.day = 0
    THEN FirstRowDays(d)
    ELSE LET w == WeekdaysAfter(d)
         IN { k \in w :
                \/ \A e \in w : k <= e
                \/ /\ Cardinality({e \in w : e < k}) = 1
                   /\ \E e \in w : e < k /\ ThirdFriday([d EXCEPT !.day = e]) }

\* Mutant of the update below: a month that ended on the deadline is also
\* counted as a first-dip month
summary_update_DeadlineCountsAsFirstDip(sum, ms) ==
    [ first_dip_triggered |->
        sum.first_dip_triggered +
           (IF ms.first_dip_triggered \/ ms.monthly_deadline_triggered THEN 1 ELSE 0),
      monthly_deadline_triggered |->
        sum.monthly_deadline_triggered + (IF ms.monthly_deadline_triggered THEN 1 ELSE 0),
      second_dip_triggered |->
        sum.second_dip_triggered + (IF ms.second_dip_triggered THEN 1 ELSE 0),
      third_dip_triggered |->
        sum.third_dip_triggered + (IF ms.third_dip_triggered THEN 1 ELSE 0),
      total_months |-> sum.total_months + 1 ]

summary_update(sum, ms) ==
    [ first_dip_triggered |->
        sum.first_dip_triggered + (IF ms.first_dip_triggered THEN 1 ELSE 0),
      monthly_deadline_triggered |->
        sum.monthly_deadline_triggered + (IF ms.monthly_deadline_triggered THEN 1 ELSE 0),
      second_dip_triggered |->
        sum.second_dip_triggered + (IF ms.second_dip_triggered THEN 1 ELSE 0),
      third_dip_triggered |->
        sum.third_dip_triggered + (IF ms.third_dip_triggered THEN 1 ELSE 0),
      total_months |-> sum.total_months + 1 ]

\* Mutant of the test below: a group of 4 rows is analysed
TooShort_Four(n) == n < MinTradingDays - 1

\* len(monthly_data) < 5
TooShort(n) == n < MinTradingDays

\* run_backtest: a group with fewer than 5 rows is skipped
SkipShortMonth ==
    /\ mode = "backtest"
    /\ phase = "group"
    /\ monthsLeft > 0
    /\ \E n \in 1..MaxBars, c \in Closes :
         /\ TooShort(n)
         /\ trading_days' = n
         /\ prevClose' = <<c>>
    /\ today' = NextMonth(today)
    /\ monthsLeft' = monthsLeft - 1
    /\ messages' = << >>
    /\ outcome' = Step("skip", << >>)
    /\ UNCHANGED <<mode, liveVars, phase, i, month_state,
                   backtest_results, trigger_summary>>

\* Mutant of the action below: the flags of the previous month are kept
BeginAnalyzeMonth_KeepsFlags ==
    /\ mode = "backtest"
    /\ phase = "group"
    /\ monthsLeft > 0
    /\ \E n \in 1..MaxBars, o \in Opens :
         /\ ~TooShort(n)
         /\ trading_days' = n
         /\ month_state' =
              [ new_month_state(MonthStr(today), n, o) EXCEPT
                  !.first_dip_triggered = month_state.first_dip_triggered,
                  !.second_dip_triggered = month_state.second_dip_triggered ]
    /\ i' = 0
    /\ phase' = "rows"
    /\ messages' = << >>
    /\ outcome' = Step("begin", << >>)
    /\ evalCloses' = {}
    /\ UNCHANGED <<mode, daysLeft, firstOpen, todayBar, todayOpen, fetcher, state,
                   file, fired, undelivered, today, prevClose, monthsLeft,
                   backtest_results, trigger_summary>>

\* run_backtest calls analyze_month on a group of at least 5 rows; the month
\* state is initialised with the open of the group's first row
BeginAnalyzeMonth ==
    /\ mode = "backtest"
    /\ phase = "group"
    /\ monthsLeft > 0
    /\ \E n \in 1..MaxBars, o \in Opens :
         /\ ~TooShort(n)
         /\ trading_days' = n
         /\ month_state' = new_month_state(MonthStr(today), n, o)
    /\ i' = 0
    /\ phase' = "rows"
    /\ messages' = << >>
    /\ outcome' = Step("begin", << >>)
    /\ evalCloses' = {}
    /\ UNCHANGED <<mode, daysLeft, firstOpen, todayBar, todayOpen, fetcher, state,
                   file, fired, undelivered, today, prevClose, monthsLeft,
                   backtest_results, trigger_summary>>

\* A price of 0 in the frame: no price of the provider is 0 on a trading day,
\* so this open is an input of SpecBacktestZeroOpen only
ZeroOpens == {0}

\* analyze_month on a group of at least 5 rows whose first open is 0:
\* month_return divides by month_start_price, the ZeroDivisionError is caught
\* and analyze_month returns None before the row loop; run_backtest stores
\* nothing for the month and goes on to the next group. month_state is the
\* dict as it was when the exception was raised.
AnalyzeMonthRaises ==
    /\ mode = "backtest"
    /\ phase = "group"
    /\ monthsLeft > 0
    /\ \E n \in 1..MaxBars, o \in ZeroOpens, c \in Closes :
         /\ ~TooShort(n)
         /\ trading_days' = n
         /\ month_state' = new_month_state(MonthStr(today), n, o)
         /\ prevClose' = <<c>>
    /\ today' = NextMonth(today)
    /\ monthsLeft' = monthsLeft - 1
    /\ messages' = << >>
    /\ outcome' = Step("raised", << >>)
    /\ UNCHANGED <<mode, liveVars, phase, i, backtest_results, trigger_summary>>

\* analyze_month: the loop body on the next row
AnalyzeRow ==
    /\ mode = "backtest"
    /\ phase = "rows"
    /\ i < trading_days
    /\ \E k \in NextRowDays(today),
          c \in Closes, breadth \in simulate_market_breadth :
         LET d == [today EXCEPT !.day = k]
             e == BtEvaluate(month_state, d, c, prevClose, breadth)
         IN /\ today' = d
            /\ prevClose' = <<c>>
            /\ month_state' = e.ms
            /\ messages' = e.new
            /\ outcome' = Step("evaluated", e.lookup)
            /\ evalCloses' = evalCloses \cup {c}
    /\ i' = i + 1
    /\ UNCHANGED <<mode, daysLeft, firstOpen, todayBar, todayOpen, fetcher, state,
                   file, fired, undelivered, phase, monthsLeft, trading_days,
                   backtest_results, trigger_summary>>

\* analyze_month returns; run_backtest stores the result and counts it
FinishMonth ==
    /\ mode = "backtest"
    /\ phase = "rows"
    /\ i = trading_days
    /\ backtest_results' = Append(backtest_results, month_state)
    /\ trigger_summary' = summary_update(trigger_summary, month_state)
    /\ today' = NextMonth(today)
    /\ monthsLeft' = monthsLeft - 1
    /\ phase' = "group"
    /\ messages' = << >>
    /\ outcome' = Step("month_done", << >>)
    /\ UNCHANGED <<mode, liveVars, prevClose, trading_days, i, month_state>>

\* The group loop is over: generate_backtest_report
FinishBacktest ==
    /\ mode = "backtest"
    /\ phase = "group"
    /\ monthsLeft = 0
    /\ phase' = "done"
    /\ messages' = << >>
    /\ outcome' = Step("report", << >>)
    /\ UNCHANGED <<mode, liveVars, today, prevClose, monthsLeft, trading_days, i,
                   month_state, backtest_results, trigger_summary>>

-----------------------------------------------------------------------------
(* Both monitors on the bars of one month: check_triggers once per bar, on  *)
(* the day of the bar, by a monitor that starts from the default state, and *)
(* analyze_month on the group of those bars, with the same breadth value    *)

\* The month's bars are fixed: their number and the open of the first one
CompareBegin ==
    /\ mode = "compare"
    /\ phase = "group"
    /\ \E n \in 1..MaxBars, o \in Opens :
         /\ trading_days' = n
         /\ firstOpen' = <<o>>
         /\ month_state' = new_month_state(MonthStr(today), n, o)
    /\ state' = default_state
    /\ i' = 0
    /\ phase' = "rows"
    /\ messages' = << >>
    /\ outcome' = Step("begin", << >>)
    /\ UNCHANGED <<mode, today, daysLeft, prevClose, todayBar, todayOpen, fetcher, file, fired,
                   evalCloses, undelivered, monthsLeft, backtest_results,
                   trigger_summary>>

\* The next bar: the evaluation part of check_triggers on its day, and the
\* loop body of analyze_month on its row
CompareRow ==
    /\ mode = "compare"
    /\ phase = "rows"
    /\ i < trading_days
    /\ \E k \in NextRowDays(today), c \in Closes, breadth \in Breadths :
         LET d    == [today EXCEPT !.day = k]
             st0  == LiveRollover(state, MonthStr(d), firstOpen)
             live == LiveEvaluate(st0, d, c, prevClose, breadth)
             bt   == BtEvaluate(month_state, d, c, prevClose, breadth)
         IN /\ today' = d
            /\ prevClose' = <<c>>
            /\ todayBar' = <<c>>
            /\ state' = live.st
            /\ file' = save_state(live.st)
            /\ messages' = live.msgs
            /\ month_state' = bt.ms
            /\ outcome' = [ kind |-> "compared", lookup |-> live.lookup,
                            source |-> "none", sent |-> << >>,
                            bt |-> [new |-> bt.new, lookup |-> bt.lookup] ]
    /\ i' = i + 1
    /\ UNCHANGED <<mode, daysLeft, firstOpen, todayOpen, fetcher, fired, evalCloses,
                   undelivered, phase,
                   monthsLeft, trading_days, backtest_results, trigger_summary>>

-----------------------------------------------------------------------------
(* Both copies of is_third_friday on the dates of a month                   *)

\* The years of the dates: 28 consecutive years have every arrangement of
\* weekdays and month lengths, leap years included
CalendarYears == 2000..2027

\* RSPMonitor.is_third_friday and RSPBacktestMonitor.is_third_friday are
\* called once with a date of the month; fridays is len(fridays) of the call
CheckThirdFriday ==
    /\ mode = "calendar"
    /\ outcome.kind = "start"
    /\ \E k \in 1..DaysInMonth(today.year, today.month) :
         LET d == [today EXCEPT !.day = k]
         IN /\ today' = d
            /\ outcome' = [ kind |-> "is_third_friday", lookup |-> << >>,
                            source |-> "none", sent |-> << >>,
                            live |-> is_third_friday(d),
                            bt |-> BtIsThirdFriday(d),
                            fridays |-> Cardinality(FridaysOf(d.year, d.month)) ]
    /\ UNCHANGED <<mode, liveVars, prevClose, messages, btVars>>

-----------------------------------------------------------------------------

empty_summary ==
    [ first_dip_triggered |-> 0, monthly_deadline_triggered |-> 0,
      second_dip_triggered |-> 0, third_dip_triggered |-> 0, total_months |-> 0 ]

InitLive ==
    /\ mode = "live"
    /\ today \in StartDates
    /\ daysLeft = MaxDays
    /\ firstOpen \in { <<o>> : o \in StartOpens }
    /\ prevClose \in { <<c>> : c \in StartCloses }
    /\ todayBar = << >>
    /\ todayOpen = << >>
    /\ fetcher \in {"imported", "fallback"}
    /\ file \in StartFiles
    /\ state = load_state(file)
    /\ messages = << >>
    /\ outcome = Step("start", << >>)
    /\ fired = NoneFired
    /\ evalCloses = {}
    /\ undelivered = {}
    /\ phase = "idle"
    /\ monthsLeft = 0
    /\ trading_days = 0
    /\ i = 0
    /\ month_state = new_month_state(<< >>, 0, 0)
    /\ backtest_results = << >>
    /\ trigger_summary = empty_summary

InitBacktest ==
    /\ mode = "backtest"
    /\ today = [BacktestStart EXCEPT !.day = 0]
    /\ daysLeft = 0
    /\ firstOpen = << >>
    /\ prevClose = << >>
    /\ todayBar = << >>
    /\ todayOpen = << >>
    /\ fetcher = "imported"
    /\ state = default_state
    /\ file = << >>
    /\ messages = << >>
    /\ outcome = Step("start", << >>)
    /\ fired = NoneFired
    /\ evalCloses = {}
    /\ undelivered = {}
    /\ phase = "group"
    /\ monthsLeft = Cardinality(BacktestMonths)
    /\ trading_days = 0
    /\ i = 0
    /\ month_state = new_month_state(<< >>, 0, 0)
    /\ backtest_results = << >>
    /\ trigger_summary = empty_summary

InitCompare ==
    /\ mode = "compare"
    /\ today = [BacktestStart EXCEPT !.day = 0]
    /\ daysLeft = 0
    /\ firstOpen = << >>
    /\ prevClose \in { << >> } \cup { <<c>> : c \in Closes }
    /\ todayBar = << >>
    /\ todayOpen = << >>
    /\ fetcher = "imported"
    /\ state = default_state
    /\ file = << >>
    /\ messages = << >>
    /\ outcome = Step("start", << >>)
    /\ fired = NoneFired
    /\ evalCloses = {}
    /\ undelivered = {}
    /\ phase = "group"
    /\ monthsLeft = 0
    /\ trading_days = 0
    /\ i = 0
    /\ month_state = new_month_state(<< >>, 0, 0)
    /\ backtest_results = << >>
    /\ trigger_summary = empty_summary

InitCalendar ==
    /\ mode = "calendar"
    /\ today \in { [year |-> y, month |-> m, day |-> 0] :
                     y \in CalendarYears, m \in 1..12 }
    /\ daysLeft = 0
    /\ firstOpen = << >>
    /\ prevClose = << >>
    /\ todayBar = << >>
    /\ todayOpen = << >>
    /\ fetcher = "imported"
    /\ state = default_state
    /\ file = << >>
    /\ messages = << >>
    /\ outcome = Step("start", << >>)
    /\ fired = NoneFired
    /\ evalCloses = {}
    /\ undelivered = {}
    /\ phase = "idle"
    /\ monthsLeft = 0
    /\ trading_days = 0
    /\ i = 0
    /\ month_state = new_month_state(<< >>, 0, 0)
    /\ backtest_results = << >>
    /\ trigger_summary = empty_summary

Init == InitLive \/ InitBacktest

NextLive ==
    \/ check_triggers
    \/ NewProcess
    \/ PublishBar
    \/ AdvanceDay

NextBacktest ==
    \/ SkipShortMonth
    \/ BeginAnalyzeMonth
    \/ AnalyzeRow
    \/ FinishMonth
    \/ FinishBacktest

NextCompare ==
    \/ CompareBegin
    \/ CompareRow

NextCalendar == CheckThirdFriday

NextBacktestZeroOpen ==
    \/ NextBacktest
    \/ AnalyzeMonthRaises

Next == NextLive \/ NextBacktest

Spec == Init /\ [][Next]_vars

SpecLive == InitLive /\ [][NextLive]_vars

SpecBacktest == InitBacktest /\ [][NextBacktest]_vars

SpecCompare == InitCompare /\ [][NextCompare]_vars

SpecCalendar == InitCalendar /\ [][NextCalendar]_vars

SpecBacktestZeroOpen == InitBacktest /\ [][NextBacktestZeroOpen]_vars

-----------------------------------------------------------------------------
(* Properties *)

Flags == {"first_dip_triggered", "monthly_deadline_triggered",
          "second_dip_triggered", "third_dip_triggered"}

Evaluated == outcome.kind = "evaluated"

LiveEvaluated == mode = "live" /\ Evaluated

BtEvaluated == mode = "backtest" /\ Evaluated

\* The return of the bar evaluated by the latest evaluation is <= -1%
LiveDipToday == todayBar # << >> /\ AtMostMinusOnePct(pct_change(todayBar[1], prevClose))

Stage1Exclusive(r) == ~(r.first_dip_triggered /\ r.monthly_deadline_triggered)

\* C1: first_dip_triggered and monthly_deadline_triggered are never both true:
\* not in the live state, not in the saved state, not in the month state of
\* the backtest, not in a stored month result.
C1_Stage1MutuallyExclusive ==
    /\ Stage1Exclusive(state)
    /\ Parses(file) => Stage1Exclusive(file[1])
    /\ Stage1Exclusive(month_state)
    /\ \A k \in 1..Len(backtest_results) : Stage1Exclusive(backtest_results[k])

\* A day with a return <= -1% is evaluated after the deadline has fired
C1_Witness ==
    /\ LiveEvaluated
    /\ LiveDipToday
    /\ state.monthly_deadline_triggered
    /\ ~ThirdFriday(today)

\* The step is an evaluation of today's bar by a monitor whose state was left
\* by an evaluation of that same bar
ReEvaluation ==
    /\ mode = "live"
    /\ state.last_check_date = DateStr(today)
    /\ outcome'.kind = "evaluated"

MonthAnalysedPastThirdFriday ==
    /\ mode = "backtest"
    /\ phase = "rows"
    /\ i = trading_days
    /\ \E k \in 15..21 : k < today.day /\ ThirdFriday([today EXCEPT !.day = k])

\* C3 as stated, for a backtest month whose rows run past its third Friday:
\* when analyze_month is about to return, exactly one of the two stage-1
\* flags is set (violated by the code: none is set when the month has no
\* return <= -1% and no row dated on the third Friday).
C3_Original_ExactlyOneStage1 ==
    MonthAnalysedPastThirdFriday =>
       \/ month_state.first_dip_triggered /\ ~month_state.monthly_deadline_triggered
       \/ ~month_state.first_dip_triggered /\ month_state.monthly_deadline_triggered

Before(seq, a, b) ==
    \A kb \in 1..Len(seq) : seq[kb] = b => \E ka \in 1..(kb - 1) : seq[ka] = a

\* C4: third_dip_triggered implies second_dip_triggered in every state (live
\* state, saved state, backtest month state), and ThirdDip never fires before
\* SecondDip: in the events of one evaluation and in a month's trigger list
\* SecondDip comes first, and in live mode ThirdDip has fired in the calendar
\* month only if SecondDip has.
C4_ThirdDipNeedsSecondDip ==
    /\ state.third_dip_triggered => state.second_dip_triggered
    /\ Parses(file) => (file[1].third_dip_triggered => file[1].second_dip_triggered)
    /\ month_state.third_dip_triggered => month_state.second_dip_triggered
    /\ fired["third_dip"] > 0 => fired["second_dip"] > 0
    /\ "third_dip" \in Types(messages) =>
          \/ Before([k \in 1..Len(messages) |-> messages[k].type], "second_dip", "third_dip")
          \/ /\ mode = "live" /\ fired["second_dip"] > 0
          \/ /\ mode = "backtest" /\ "second_dip" \in {month_state.triggers[k] : k \in 1..Len(month_state.triggers)}
    /\ Before(month_state.triggers, "second_dip", "third_dip")

\* Backtest: ThirdDip fires on a row after the row on which SecondDip fired
C4_Witness ==
    /\ BtEvaluated
    /\ Types(messages) = {"third_dip"}
    /\ month_state.second_dip_triggered
    /\ month_state.third_dip_triggered

\* C5: an evaluation that runs with month_start_price unset emits no SecondDip
\* and leaves second_dip_triggered false; no state, in memory or saved, has
\* second_dip_triggered set with month_start_price unset.
C5_NoSecondDipWithoutStartPrice ==
    /\ state.month_start_price = << >> => ~state.second_dip_triggered
    /\ Parses(file) => (file[1].month_start_price = << >> => ~file[1].second_dip_triggered)
    /\ (LiveEvaluated /\ state.month_start_price = << >>) =>
          "second_dip" \notin Types(messages)

\* A bar whose close is 5% below either possible open is evaluated with the
\* month start price unset
C5_Witness ==
    /\ LiveEvaluated
    /\ state.month_start_price = << >>
    /\ todayBar = <<95>>
    /\ state.month_low_price = <<95>>

TypeOf == [ first_dip_triggered        |-> "first_dip",
            monthly_deadline_triggered |-> "monthly_deadline",
            second_dip_triggered       |-> "second_dip",
            third_dip_triggered        |-> "third_dip" ]

\* The step is a check_triggers run that finds the stored month different
\* from today's month
RolloverStep ==
    /\ mode = "live"
    /\ outcome'.kind \in {"evaluated", "no_bar"}
    /\ state.current_month # MonthStr(today)

NoDuplicates(seq) == Cardinality({seq[k] : k \in 1..Len(seq)}) = Len(seq)

\* C6: within one month every flag, once true, stays true (in memory, in the
\* saved state, in the backtest month state); a flag goes back to false only
\* in the rollover reset of check_triggers (backtest: only when analyze_month
\* starts a new month); each trigger type is emitted at most once per month.
C6_FlagsMonotoneAndEmittedOnce ==
    /\ [](/\ \A t \in TriggerTypes : fired[t] <= 1
          /\ NoDuplicates(month_state.triggers))
    /\ [][ \A f \in Flags :
             /\ (state[f] /\ ~state'[f]) => RolloverStep
             /\ (state[f] /\ state'.current_month = state.current_month) => state'[f]
             /\ (Parses(file) /\ file[1][f] /\ Parses(file')) =>
                   (file'[1][f] \/ file'[1].current_month # file[1].current_month)
             /\ (month_state[f] /\ ~month_state'[f]) => outcome'.kind = "begin"
       ]_vars

\* A later evaluation of the month meets a return <= -1% with FirstDip already
\* fired, and emits nothing
C6_Witness ==
    /\ LiveEvaluated
    /\ LiveDipToday
    /\ state.first_dip_triggered
    /\ fired["first_dip"] = 1
    /\ messages = << >>

\* C7: a check_triggers run that finds the stored month different from
\* today's month leaves the new month's key, no flag except those of the
\* events it emits itself, as month start price the open of the first bar of
\* the new month (unset when there is none) and as month low the close it
\* evaluates (unset when it evaluates none).
C7_RolloverResets ==
    [][ RolloverStep =>
          /\ state'.current_month = MonthStr(today)
          /\ \A f \in Flags : state'[f] => TypeOf[f] \in Types(messages')
          /\ state'.month_start_price = firstOpen
          /\ state'.month_low_price =
                (IF outcome'.kind = "evaluated" THEN todayBar ELSE << >>)
      ]_vars

\* A rollover has reset a state that had flags and prices of the previous month
C7_Witness ==
    /\ mode = "live"
    /\ outcome.kind = "no_bar"
    /\ Parses(file)
    /\ file[1].current_month # state.current_month
    /\ file[1].first_dip_triggered
    /\ file[1].second_dip_triggered
    /\ file[1].third_dip_triggered
    /\ file[1].month_low_price # << >>
    /\ \A f \in Flags : ~state[f]
    /\ state.month_low_price = << >>

MinOf(S) == CHOOSE x \in S : \A y \in S : x <= y

\* C8: after each evaluation month_low_price is the minimum close among the
\* bars evaluated so far in the month, and while current_month stays the same
\* month_low_price, once set, stays set and never increases.
C8_MonthLowIsRunningMinimum ==
    /\ [](LiveEvaluated => state.month_low_price = <<MinOf(evalCloses)>>)
    /\ [][ ( /\ mode = "live"
             /\ state'.current_month = state.current_month
             /\ state.month_low_price # << >> )
           => ( /\ state'.month_low_price # << >>
                /\ state'.month_low_price[1] <= state.month_low_price[1] )
       ]_vars

\* A close above the month low is evaluated and the low stays
C8_Witness ==
    /\ LiveEvaluated
    /\ todayBar = <<100>>
    /\ state.month_low_price = <<95>>
    /\ evalCloses = {95, 100}

Count(seq, x) == Cardinality({k \in 1..Len(seq) : seq[k] = x})

TypeSeq(msgs) == [k \in 1..Len(msgs) |-> msgs[k].type]

\* C9: after an evaluation on the third Friday of a month in which FirstDip
\* has not fired (so no evaluated day up to and including it had a return
\* <= -1%), MonthlyDeadline has fired exactly once, on that date; and once
\* MonthlyDeadline has fired, FirstDip does not fire in that month.
C9_DeadlineOnThirdFriday ==
    /\ (LiveEvaluated /\ ThirdFriday(today) /\ fired["first_dip"] = 0) =>
          /\ fired["monthly_deadline"] = 1
          /\ state.monthly_deadline_triggered
          /\ ~state.first_dip_triggered
          /\ Count(TypeSeq(messages), "monthly_deadline") <= 1
    /\ fired["monthly_deadline"] > 0 => fired["first_dip"] = 0
    /\ (BtEvaluated /\ ThirdFriday(today) /\ Count(month_state.triggers, "first_dip") = 0) =>
          /\ Count(TypeSeq(messages), "monthly_deadline") = 1
          /\ Count(month_state.triggers, "monthly_deadline") = 1
          /\ month_state.monthly_deadline_triggered
    /\ Count(month_state.triggers, "monthly_deadline") > 0 =>
          Count(month_state.triggers, "first_dip") = 0
    /\ \A k \in 1..Len(messages) :
          messages[k].type = "monthly_deadline" => ThirdFriday(messages[k].date)

\* Backtest: on a row after the third Friday, with MonthlyDeadline fired, the
\* return is <= -1% and no FirstDip is appended
C9_Witness ==
    /\ BtEvaluated
    /\ month_state.monthly_deadline_triggered
    /\ ~month_state.first_dip_triggered
    /\ ~ThirdFriday(today)
    /\ \E k \in 1..Len(messages) : AtMostMinusOnePct(messages[k].daily_return)

\* Stage 3 was reached with second_dip_triggered true and third_dip_triggered false
Stage3Open(st) ==
    /\ st.second_dip_triggered
    /\ ~st.third_dip_triggered \/ "third_dip" \in Types(messages)

\* C10: in an evaluation that reaches stage 3 with second_dip_triggered true
\* and third_dip_triggered false the breadth is looked up, and ThirdDip fires
\* if and only if the value is below 15; the event is dated the day of the
\* evaluation and carries the value looked up.
C10_ThirdDipIffBreadthBelow15 ==
    /\ (LiveEvaluated /\ Stage3Open(state)) =>
          /\ outcome.lookup # << >>
          /\ "third_dip" \in Types(messages) <=> outcome.lookup[1] < 15
    /\ (BtEvaluated /\ Stage3Open(month_state)) =>
          /\ outcome.lookup # << >>
          /\ "third_dip" \in Types(messages) <=> outcome.lookup[1] < 15
    /\ \A k \in 1..Len(messages) :
          messages[k].type = "third_dip" =>
             /\ Evaluated
             /\ messages[k].market_breadth = outcome.lookup
             /\ messages[k].date = today

\* ThirdDip fires on a day whose decline is below 5%: SecondDip fired on an
\* earlier day
C10_Witness ==
    /\ LiveEvaluated
    /\ Types(messages) = {"third_dip"}
    /\ outcome.lookup = <<14>>
    /\ ~AtLeastFivePct(LiveCumulativeDecline(state.month_start_price, todayBar[1]))

\* The close fell by at least 1% of the previous close
FellOnePct(close, prev) == prev # << >> /\ 100 * (prev[1] - close) >= prev[1]

FirstDips(msgs) == { k \in 1..Len(msgs) : msgs[k].type = "first_dip" }

\* C11: FirstDip fires in an evaluation exactly when the evaluated bar's
\* return is <= -1% (exactly -1% included) and neither stage-1 flag is set
\* when the evaluation starts (after the rollover reset, if any); it fires at
\* most once per month; the event is dated the evaluated day, its price is
\* that day's close and its cumulative decline is
\* (month_start_price - close) / month_start_price.
C11_FirstDipOnFirstQualifyingDay ==
    /\ [](/\ fired["first_dip"] <= 1
          /\ Count(month_state.triggers, "first_dip") <= 1)
    /\ [][ /\ (mode = "live" /\ outcome'.kind = "evaluated") =>
                LET clear == \/ state.current_month # MonthStr(today)
                             \/ /\ ~state.first_dip_triggered
                                /\ ~state.monthly_deadline_triggered
                    close == todayBar[1]
                IN /\ (FirstDips(messages') # {}) <=>
                         (clear /\ FellOnePct(close, prevClose))
                   /\ Cardinality(FirstDips(messages')) <= 1
                   /\ \A k \in FirstDips(messages') :
                        /\ messages'[k].date = today
                        /\ messages'[k].price = close
                        /\ state'.first_dip_triggered
                        /\ fired'["first_dip"] = 1
                        /\ state'.month_start_price # << >> =>
                             messages'[k].cumulative_decline =
                                Frac(state'.month_start_price[1] - close,
                                     state'.month_start_price[1])
           /\ (mode = "backtest" /\ outcome'.kind = "evaluated") =>
                LET clear == /\ ~month_state.first_dip_triggered
                             /\ ~month_state.monthly_deadline_triggered
                    close == prevClose'[1]
                IN /\ (FirstDips(messages') # {}) <=>
                         (clear /\ FellOnePct(close, prevClose))
                   /\ Cardinality(FirstDips(messages')) <= 1
                   /\ \A k \in FirstDips(messages') :
                        /\ messages'[k].date = today'
                        /\ messages'[k].price = close
                        /\ month_state'.first_dip_triggered
                        /\ messages'[k].cumulative_decline =
                             Frac(month_state.month_start_price - close,
                                  month_state.month_start_price)
       ]_vars

\* FirstDip fires on a return of exactly -1% (100 -> 99) with the month start
\* price known
C11_Witness ==
    /\ LiveEvaluated
    /\ state.month_start_price # << >>
    /\ prevClose = <<100>>
    /\ todayBar = <<99>>
    /\ \E k \in FirstDips(messages) :
         /\ messages[k].price = 99
         /\ messages[k].daily_return = Frac(0 - 1, 100)

\* The decline from start to close is below 5%
BelowFivePct(start, close) == 100 * (start - close) < 5 * start

FracBelowFivePct(x) == 100 * x.num < 5 * x.den

CountSet(seq, flag) == Cardinality({ k \in 1..Len(seq) : seq[k][flag] })

\* C12: while the cumulative decline of every bar evaluated so far in the
\* month is below 5%, second_dip_triggered and third_dip_triggered are false
\* after every evaluation, no SecondDip or ThirdDip has been emitted and the
\* evaluation makes no breadth lookup; a stored backtest month whose largest
\* decline is below 5% has both flags false, and the summary's second-dip and
\* third-dip counts are the numbers of stored months with the flag set, so
\* such a month adds nothing to them.
C12_NoSecondThirdBelowFivePct ==
    /\ ( /\ LiveEvaluated
         /\ firstOpen # << >>
         /\ \A c \in evalCloses : BelowFivePct(firstOpen[1], c) ) =>
          /\ ~state.second_dip_triggered
          /\ ~state.third_dip_triggered
          /\ outcome.lookup = << >>
          /\ fired["second_dip"] = 0
          /\ fired["third_dip"] = 0
    /\ ( /\ mode = "backtest"
         /\ phase = "rows"
         /\ FracBelowFivePct(month_state.max_decline) ) =>
          /\ ~month_state.second_dip_triggered
          /\ ~month_state.third_dip_triggered
          /\ Count(month_state.triggers, "second_dip") = 0
          /\ Count(month_state.triggers, "third_dip") = 0
          /\ outcome.lookup = << >>
    /\ \A k \in 1..Len(backtest_results) :
          FracBelowFivePct(backtest_results[k].max_decline) =>
             /\ ~backtest_results[k].second_dip_triggered
             /\ ~backtest_results[k].third_dip_triggered
    /\ trigger_summary.second_dip_triggered =
          CountSet(backtest_results, "second_dip_triggered")
    /\ trigger_summary.third_dip_triggered =
          CountSet(backtest_results, "third_dip_triggered")

\* A backtest month whose largest decline was 1% is stored and counted
C12_Witness ==
    /\ mode = "backtest"
    /\ outcome.kind = "month_done"
    /\ backtest_results[Len(backtest_results)].max_decline = Frac(1, 100)
    /\ backtest_results[Len(backtest_results)].first_dip_triggered
    /\ trigger_summary.total_months = Len(backtest_results)
    /\ trigger_summary.second_dip_triggered = 0

\* C13: run_backtest skips a month group of fewer than 5 rows: the skip
\* changes neither backtest_results nor any count of trigger_summary
\* (total_months included), and such a group is never analysed; a group of 5
\* or more rows, once analysed, appends exactly one entry (its month state)
\* and adds one to total_months; nothing else changes the results, so every
\* stored entry has at least 5 rows and total_months is the number of entries.
C13_ShortMonthsExcluded ==
    /\ [](/\ \A k \in 1..Len(backtest_results) :
                backtest_results[k].trading_days >= 5
          /\ trigger_summary.total_months = Len(backtest_results)
          /\ (mode = "backtest" /\ phase = "rows") => trading_days >= 5)
    /\ [][ /\ (outcome'.kind \in {"skip", "begin"} /\ trading_days' < 5) =>
                /\ outcome'.kind = "skip"
                /\ backtest_results' = backtest_results
                /\ trigger_summary' = trigger_summary
           /\ (outcome'.kind \in {"skip", "begin"} /\ trading_days' >= 5) =>
                outcome'.kind = "begin"
           /\ outcome'.kind = "month_done" =>
                /\ backtest_results' = Append(backtest_results, month_state)
                /\ trigger_summary'.total_months = trigger_summary.total_months + 1
           /\ outcome'.kind # "month_done" =>
                /\ backtest_results' = backtest_results
                /\ trigger_summary' = trigger_summary
       ]_vars

\* A group of 4 rows has just been skipped
C13_Witness ==
    /\ mode = "backtest"
    /\ outcome.kind = "skip"
    /\ trading_days = 4
    /\ backtest_results = << >>
    /\ trigger_summary = empty_summary

\* C14 as stated: a run that finds no bar for today leaves the monthly state
\* in memory and the saved file as they were (violated by the code: the
\* new-month reset runs before the test for today's bar).
C14_Original_NoBarRunLeavesState ==
    [][ (mode = "live" /\ outcome'.kind = "no_bar") =>
           /\ state' = state
           /\ file' = file
      ]_vars

\* C15 as stated: a breadth value that did not come from a real source is
\* >= 15 and the evaluation that got it emits no ThirdDip (violated by the
\* code: the class defined when the import fails returns
\* random.uniform(10, 30)).
C15_Original_NoRealDataNoThirdDip ==
    (LiveEvaluated /\ outcome.lookup # << >> /\ outcome.source # "real") =>
       /\ outcome.lookup[1] >= 15
       /\ "third_dip" \notin Types(messages)

\* C16: in a run that evaluates today's bar send_wechat is called once for
\* every message of the run, whatever the earlier calls returned, and the
\* state of the run, with the flags of its events and today's date as
\* last_check_date, is saved.
C16_FailedDeliveryBlocksNothing ==
    LiveEvaluated =>
       /\ Len(outcome.sent) = Len(messages)
       /\ file = <<state>>
       /\ state.last_check_date = DateStr(today)
       /\ \A f \in Flags : TypeOf[f] \in Types(messages) => file[1][f]

\* Two messages, the first not delivered, the second delivered
C16_Witness ==
    /\ LiveEvaluated
    /\ Len(messages) >= 2
    /\ Len(outcome.sent) >= 2
    /\ ~outcome.sent[1]
    /\ outcome.sent[2]
    /\ file = <<state>>

FreshState ==
    [ current_month              |-> << >>,
      first_dip_triggered        |-> FALSE,
      monthly_deadline_triggered |-> FALSE,
      second_dip_triggered       |-> FALSE,
      third_dip_triggered        |-> FALSE,
      month_start_price          |-> << >>,
      month_low_price            |-> << >>,
      last_check_date            |-> << >> ]

\* C17: a process that starts with the state file missing or unparsable has
\* the default state (empty current_month, the four flags false, both prices
\* unset); its run on a day with a bar then proceeds as a first run: the
\* month is today's month, the month start price is the open of the month's
\* first bar, the month low is today's close, the only flags set are those
\* of the events of the run, and the state is saved.
C17_UnreadableFileGivesDefault ==
    /\ []((mode = "live" /\ outcome.kind = "start" /\ ~Parses(file)) =>
             state = FreshState)
    /\ [][ ( /\ mode = "live"
             /\ outcome.kind = "start"
             /\ ~Parses(file)
             /\ todayBar # << >>
             /\ outcome'.kind \in {"evaluated", "no_bar"} ) =>
           /\ outcome'.kind = "evaluated"
           /\ state'.current_month = MonthStr(today)
           /\ state'.month_start_price = firstOpen
           /\ state'.month_low_price = todayBar
           /\ state'.last_check_date = DateStr(today)
           /\ \A f \in Flags : state'[f] <=> TypeOf[f] \in Types(messages')
           /\ file' = <<state'>>
       ]_vars

\* A process was started on an unparsable file after today's bar was
\* published, and has the default state
C17_Witness ==
    /\ mode = "live"
    /\ outcome.kind = "start"
    /\ file # << >>
    /\ ~Parses(file)
    /\ todayBar # << >>
    /\ state.current_month = << >>
    /\ \A f \in Flags : ~state[f]

\* C18: over the bars of one month, with the same breadth value on each day,
\* the live evaluation run once per bar from the default state and
\* analyze_month emit the same events on every bar (same types, in the same
\* order, with the same date, price, return, decline and breadth), make the
\* breadth lookup on the same bars and have the same four flags after every
\* bar, so also after the last one.
C18_LiveMatchesBacktest ==
    mode = "compare" =>
       /\ \A f \in Flags : state[f] = month_state[f]
       /\ outcome.kind = "compared" =>
             /\ messages = outcome.bt.new
             /\ outcome.lookup = outcome.bt.lookup
             /\ \A k \in 1..Len(messages) : messages[k].date = today
       /\ Len(month_state.triggers) =
             Cardinality({ f \in Flags : state[f] })

\* A whole month of 5 bars was run through both; FirstDip, SecondDip and
\* ThirdDip fired, ThirdDip on a later bar than SecondDip
C18_Witness ==
    /\ mode = "compare"
    /\ outcome.kind = "compared"
    /\ i = trading_days
    /\ trading_days >= 5
    /\ month_state.triggers = <<"first_dip", "second_dip", "third_dip">>
    /\ TypeSeq(messages) = <<"third_dip">>
    /\ state.third_dip_triggered

\* C19 as stated: the first evaluation of a new month sets month_start_price
\* to the open of the bar it evaluates (violated by the code when that bar is
\* not the first bar of the month in the fetched frame).
C19_Original_StartPriceIsEvaluatedOpen ==
    [][ ( /\ mode = "live"
          /\ outcome'.kind = "evaluated"
          /\ state.current_month # MonthStr(today) ) =>
        state'.month_start_price = todayOpen
      ]_vars

\* C19 amended: an evaluation that finds the stored month different from
\* today's month sets month_start_price to the open of the first bar of
\* today's month in the fetched frame, whichever bar it evaluates; an
\* evaluation that finds the stored month equal to today's month leaves
\* month_start_price as it was; in the backtest no row changes the month
\* start price, which is the open of the month's first row.
C19_StartPriceIsMonthFirstOpen ==
    [][ /\ (mode = "live" /\ outcome'.kind = "evaluated") =>
             IF state.current_month # MonthStr(today)
             THEN /\ state'.month_start_price = firstOpen
                  /\ firstOpen # << >>
             ELSE state'.month_start_price = state.month_start_price
        /\ (mode = "backtest" /\ outcome'.kind = "evaluated") =>
             month_state'.month_start_price = month_state.month_start_price
      ]_vars

\* The first evaluation of the month is on a bar whose open is not the open
\* of the month's first bar
C19_Witness ==
    /\ LiveEvaluated
    /\ evalCloses = {todayBar[1]}
    /\ fired = NoneFired
    /\ todayOpen # firstOpen
    /\ state.month_start_price = firstOpen
    /\ file = <<state>>

Stage1Types(msgs) ==
    SelectSeq(TypeSeq(msgs), LAMBDA t : t \in {"first_dip", "monthly_deadline"})

\* C20: an evaluation of the third Friday's bar whose return is <= -1%, made
\* with neither stage-1 flag set, emits exactly one stage-1 event, a FirstDip:
\* first_dip_triggered becomes true, monthly_deadline_triggered stays false.
C20_FirstDipBeatsDeadline ==
    [][ /\ ( /\ mode = "live"
             /\ outcome'.kind = "evaluated"
             /\ ThirdFriday(today)
             /\ FellOnePct(todayBar[1], prevClose)
             /\ \/ state.current_month # MonthStr(today)
                \/ ~state.first_dip_triggered /\ ~state.monthly_deadline_triggered ) =>
           /\ Stage1Types(messages') = <<"first_dip">>
           /\ state'.first_dip_triggered
           /\ ~state'.monthly_deadline_triggered
           /\ file'[1].first_dip_triggered
           /\ ~file'[1].monthly_deadline_triggered
        /\ ( /\ mode = "backtest"
             /\ outcome'.kind = "evaluated"
             /\ ThirdFriday(today')
             /\ FellOnePct(prevClose'[1], prevClose)
             /\ ~month_state.first_dip_triggered
             /\ ~month_state.monthly_deadline_triggered ) =>
           /\ Stage1Types(messages') = <<"first_dip">>
           /\ month_state'.first_dip_triggered
           /\ ~month_state'.monthly_deadline_triggered
      ]_vars

\* The third Friday's bar fell by at least 1% and FirstDip fired on it
C20_Witness ==
    /\ LiveEvaluated
    /\ ThirdFriday(today)
    /\ FellOnePct(todayBar[1], prevClose)
    /\ Stage1Types(messages) = <<"first_dip">>
    /\ state.first_dip_triggered
    /\ ~state.monthly_deadline_triggered

\* The close is at least 5% below a known, non-zero start price
FellFivePct(start, close) ==
    start # << >> /\ start[1] # 0 /\ 100 * (start[1] - close) >= 5 * start[1]

SecondDips(msgs) == { k \in 1..Len(msgs) : msgs[k].type = "second_dip" }

\* C21: SecondDip fires in an evaluation exactly when the bar's cumulative
\* decline from the month start price is >= 5% (exactly 5% included) and
\* second_dip_triggered is not set when the evaluation starts; the stage-1
\* flags and the stage-1 event of the same evaluation play no part; it fires
\* at most once per month.
C21_SecondDipIndependentOfStage1 ==
    /\ [](/\ fired["second_dip"] <= 1
          /\ Count(month_state.triggers, "second_dip") <= 1)
    /\ [][ /\ (mode = "live" /\ outcome'.kind = "evaluated") =>
                LET new   == state.current_month # MonthStr(today)
                    start == IF new THEN firstOpen ELSE state.month_start_price
                    clear == new \/ ~state.second_dip_triggered
                IN /\ (SecondDips(messages') # {}) <=>
                         (clear /\ FellFivePct(start, todayBar[1]))
                   /\ \A k \in SecondDips(messages') :
                        /\ state'.second_dip_triggered
                        /\ messages'[k].date = today
                        /\ messages'[k].price = todayBar[1]
           /\ (mode = "backtest" /\ outcome'.kind = "evaluated") =>
                /\ (SecondDips(messages') # {}) <=>
                      /\ ~month_state.second_dip_triggered
                      /\ FellFivePct(<<month_state.month_start_price>>, prevClose'[1])
                /\ \A k \in SecondDips(messages') :
                      /\ month_state'.second_dip_triggered
                      /\ messages'[k].date = today'
                      /\ messages'[k].price = prevClose'[1]
       ]_vars

\* SecondDip fires on a decline of exactly 5% in a month in which neither
\* FirstDip nor MonthlyDeadline has fired
C21_Witness ==
    /\ LiveEvaluated
    /\ \E k \in SecondDips(messages) :
          messages[k].cumulative_decline = Frac(5, 100)
    /\ ~state.first_dip_triggered
    /\ ~state.monthly_deadline_triggered
    /\ fired["first_dip"] = 0
    /\ fired["monthly_deadline"] = 0
    /\ state.second_dip_triggered

\* C22: an evaluation makes at most one breadth lookup, and makes it only
\* when stage 3 is reached with second_dip_triggered true and
\* third_dip_triggered false: an evaluation looks up nothing in a month in
\* which SecondDip has not fired, and nothing once ThirdDip has fired.
C22_LookupOnlyAtOpenStage3 ==
    /\ Len(outcome.lookup) <= 1
    /\ outcome.lookup # << >> => Evaluated
    /\ (LiveEvaluated /\ outcome.lookup # << >>) =>
          /\ Stage3Open(state)
          /\ fired["second_dip"] = 1
          /\ fired["third_dip"] = (IF "third_dip" \in Types(messages) THEN 1 ELSE 0)
    /\ (BtEvaluated /\ outcome.lookup # << >>) =>
          /\ Stage3Open(month_state)
          /\ Count(month_state.triggers, "second_dip") = 1
          /\ Count(month_state.triggers, "third_dip") =
                (IF "third_dip" \in Types(messages) THEN 1 ELSE 0)
    /\ (LiveEvaluated /\ fired["second_dip"] = 0) => outcome.lookup = << >>
    /\ (BtEvaluated /\ Count(month_state.triggers, "second_dip") = 0) =>
          outcome.lookup = << >>

\* Backtest: a row after the one on which ThirdDip fired is analysed and
\* makes no lookup
C22_Witness ==
    /\ BtEvaluated
    /\ month_state.third_dip_triggered
    /\ "third_dip" \notin Types(messages)
    /\ outcome.lookup = << >>

StageOf == [ first_dip |-> 1, monthly_deadline |-> 1, second_dip |-> 2, third_dip |-> 3 ]

\* C23: the events of one evaluation are at most three, in the order stage 1
\* (FirstDip or MonthlyDeadline, at most one of the two), SecondDip,
\* ThirdDip, each at most once; the same holds for the order of a backtest
\* month's trigger list within one row.
C23_AtMostThreeEventsInOrder ==
    /\ Len(messages) <= 3
    /\ \A k \in 1..Len(messages) : messages[k].type \in TriggerTypes
    /\ \A j, k \in 1..Len(messages) :
          j < k => StageOf[messages[j].type] < StageOf[messages[k].type]
    /\ messages # << >> => Evaluated
    /\ (LiveEvaluated) => Len(outcome.sent) <= 3

\* Backtest: one row emits FirstDip, SecondDip and ThirdDip
C23_Witness ==
    /\ BtEvaluated
    /\ TypeSeq(messages) = <<"first_dip", "second_dip", "third_dip">>
    /\ month_state.triggers = <<"first_dip", "second_dip", "third_dip">>

\* C24: a live run that finds today's bar evaluates it and writes the state
\* file, and the record written is the state of the run with last_check_date
\* set to today's date, with or without events and whatever send_wechat
\* returned; no other step writes the file.
C24_EvaluationAlwaysSaves ==
    [][ mode = "live" =>
          /\ (outcome'.kind \in {"evaluated", "no_bar"} /\ todayBar # << >>) =>
                outcome'.kind = "evaluated"
          /\ outcome'.kind = "evaluated" =>
                /\ file' = <<state'>>
                /\ file'[1].last_check_date = DateStr(today)
                /\ file'[1].current_month = MonthStr(today)
                /\ file'[1].month_low_price # << >>
          /\ outcome'.kind # "evaluated" => file' = file
      ]_vars

\* A second day of the month was evaluated, no event fired, and the file has
\* the day's date
C24_Witness ==
    /\ LiveEvaluated
    /\ messages = << >>
    /\ outcome.sent = << >>
    /\ Cardinality(evalCloses) = 2
    /\ Parses(file)
    /\ file[1].last_check_date = DateStr(today)

FlagsMatchTriggers(ms) ==
    \A f \in Flags : ms[f] <=> Count(ms.triggers, TypeOf[f]) = 1

GreatestDecline(start, closes) ==
    Frac(start - MinOf(closes), start)

FracSame(x, y) == x.num * y.den = y.num * x.den

\* C26 as stated: once a row of the month is analysed, max_decline is the
\* greatest cumulativeDecline over the rows analysed so far, also when every
\* close is above the month start price.
C26_Original_MaxDeclineIsGreatestDecline ==
    (BtEvaluated /\ evalCloses # {}) =>
        FracSame(month_state.max_decline,
                 GreatestDecline(month_state.month_start_price, evalCloses))

\* C26 (amended): max_decline is the greatest cumulativeDecline over the rows
\* analysed so far when some close is at or below the month start price, and
\* zero when every close is above it; a stored month has the value of all its
\* rows.
C26_MaxDeclineIsGreatestDeclineOrZero ==
    /\ (mode = "backtest" /\ phase = "rows") =>
          /\ i = 0 => month_state.max_decline = Zero /\ evalCloses = {}
          /\ i > 0 =>
                /\ evalCloses # {}
                /\ IF \E c \in evalCloses : c <= month_state.month_start_price
                   THEN FracSame(month_state.max_decline,
                                 GreatestDecline(month_state.month_start_price,
                                                 evalCloses))
                   ELSE month_state.max_decline = Zero
    /\ (mode = "backtest" /\ outcome.kind = "month_done") =>
          backtest_results[Len(backtest_results)].max_decline =
              month_state.max_decline

\* A month is stored whose every close was above its start price: its
\* max_decline is zero
C26_Witness ==
    /\ mode = "backtest"
    /\ outcome.kind = "month_done"
    /\ month_state.month_start_price = 99
    /\ evalCloses = {100}
    /\ backtest_results[Len(backtest_results)].max_decline = Zero

\* C27: is_third_friday is true of a date exactly when the date is the third
\* Friday of its month (a Friday among days 15..21), exactly one date of every
\* month satisfies it, every month has at least four Fridays (so the branch
\* for fewer than three is never taken), and the live and the backtest copy
\* give the same answer on every date.
C27_ExactlyTheThirdFriday ==
    (mode = "calendar" /\ outcome.kind = "is_third_friday") =>
        /\ outcome.live <=> ThirdFriday(today)
        /\ outcome.bt <=> ThirdFriday(today)
        /\ outcome.bt = outcome.live
        /\ outcome.fridays >= 4
        /\ Cardinality({ k \in 1..DaysInMonth(today.year, today.month) :
                           is_third_friday([today EXCEPT !.day = k]) }) = 1
        /\ Cardinality({ k \in 1..DaysInMonth(today.year, today.month) :
                           BtIsThirdFriday([today EXCEPT !.day = k]) }) = 1

\* Both copies answer true on 2024-02-16, the third of the four Fridays of a
\* leap February
C27_Witness ==
    /\ mode = "calendar"
    /\ outcome.kind = "is_third_friday"
    /\ today = [year |-> 2024, month |-> 2, day |-> 16]
    /\ outcome.live
    /\ outcome.bt
    /\ outcome.fridays = 4

\* C28 as stated, for the backtest: a month whose start price is 0 is
\* evaluated like any other, with a cumulativeDecline of 0 on every row: once
\* analyze_month has taken up a group of at least 5 rows, the group is being
\* analysed or has been stored.
C28_Original_ZeroStartPriceEvaluates ==
    [][ ( /\ mode = "backtest"
          /\ outcome'.kind \notin {"skip", "report", "evaluated", "month_done"} ) =>
            /\ outcome'.kind = "begin"
            /\ phase' = "rows"
      ]_vars

\* C29: an evaluation sets the flag of every event it emits, in memory and in
\* the saved state, whether send_wechat then returns True or False for it;
\* an alert type whose delivery failed in the month has been attempted exactly
\* once in the month, its flag stays in the saved state of the month, and no
\* later evaluation of the month emits the type again, in the same process or
\* in one started from the file.
C29_FailedAlertNeverResent ==
    /\ [](mode = "live" =>
            /\ LiveEvaluated =>
                 \A f \in Flags :
                    TypeOf[f] \in Types(messages) => (state[f] /\ file[1][f])
            /\ \A f \in Flags :
                 TypeOf[f] \in undelivered =>
                    /\ fired[TypeOf[f]] = 1
                    /\ Parses(file)
                    /\ file[1].current_month = MonthStr(today)
                    /\ file[1][f])
    /\ [][ (mode = "live" /\ outcome'.kind = "evaluated") =>
              \A t \in undelivered : t \notin Types(messages')
       ]_vars

\* A later run of the month meets a return <= -1% again after the FirstDip
\* alert of the month was not delivered, and emits nothing
C29_Witness ==
    /\ LiveEvaluated
    /\ LiveDipToday
    /\ "first_dip" \in undelivered
    /\ fired["first_dip"] = 1
    /\ messages = << >>
    /\ outcome.sent = << >>

\* The month of a '%Y-%m-%d' string, as a '%Y-%m' string
MonthOfDateStr(ds) == <<ds[1] \div 100>>

\* C30 as stated: every record save_state writes has a non-empty
\* current_month, which is the month of its last_check_date, a month start
\* price and a month low price.
C30_Original_SavedRecordComplete ==
    (mode = "live" /\ Parses(file)) =>
        /\ file[1].current_month # << >>
        /\ file[1].last_check_date # << >>
        /\ file[1].current_month = MonthOfDateStr(file[1].last_check_date)
        /\ file[1].month_start_price # << >>
        /\ file[1].month_low_price # << >>

\* What does hold of every saved record: all but the month start price
C30_SavedRecordButStartPrice ==
    (mode = "live" /\ Parses(file)) =>
        /\ file[1].current_month # << >>
        /\ file[1].last_check_date # << >>
        /\ file[1].current_month = MonthOfDateStr(file[1].last_check_date)
        /\ file[1].month_low_price # << >>

\* C31: during and after run_backtest, total_months is the number of stored
\* month results, the count of every trigger type is the number of stored
\* months that have the type in their trigger list and so is at most
\* total_months, and the first-dip count plus the monthly-deadline count is
\* at most total_months.
C31_SummaryCountsBounded ==
    mode = "backtest" =>
        /\ trigger_summary.total_months = Len(backtest_results)
        /\ \A f \in Flags :
              /\ trigger_summary[f] =
                    Cardinality({ k \in 1..Len(backtest_results) :
                                    Count(backtest_results[k].triggers, TypeOf[f]) > 0 })
              /\ trigger_summary[f] <= trigger_summary.total_months
        /\ trigger_summary.first_dip_triggered
              + trigger_summary.monthly_deadline_triggered
                 <= trigger_summary.total_months

\* run_backtest is over with two months stored, one with FirstDip and one
\* with MonthlyDeadline: the two counts add up to total_months
C31_Witness ==
    /\ mode = "backtest"
    /\ phase = "done"
    /\ trigger_summary.total_months = 2
    /\ trigger_summary.first_dip_triggered = 1
    /\ trigger_summary.monthly_deadline_triggered = 1
    /\ trigger_summary.second_dip_triggered = 2

====
